---- MODULE Spec2Model ----
(***************************************************************************)
(* Request-scoped context store (RequestContext.cls, an AsyncLocalStorage), *)
(* the accessor RequestContextService and ExceptionBase, which captures the *)
(* correlation id of the ambient request at construction.                   *)
(*                                                                         *)
(* Execution is single threaded and cooperative: at most one request runs   *)
(* at a time, and requests interleave at suspension points (await).         *)
(***************************************************************************)
EXTENDS Integers, Sequences, FiniteSets, TLC

(* ------------------------------ bounds -------------------------------- *)
\* deepest nesting of run calls inside one request
MaxDepth == 2
\* most nodes (scalars, strings, arrays, objects) in a value handed to isEmpty
MaxSize == 3

(* ------------------------------ values -------------------------------- *)
\* JavaScript values that flow through the accessor and the exceptions.
Undef == [t |-> "undefined", s |-> ""]
Str(x) == [t |-> "string", s |-> x]
\* a plain runtime Error (not an ExceptionBase) with message x
Err(x) == [t |-> "Error", s |-> x]

\* The logical requests (async call chains) that interleave on the thread.
Procs == {"R1", "R2"}
NoProc == "none"

\* request ids handed to setRequestId
Ids == {"abc", "r-1"}

\* The context objects handed to run, and the object each one holds as its
\* request attribute (every context is constructed with a request of its own).
Ctxs == {"c1", "c2"}
RequestOf == [c \in Ctxs |-> IF c = "c1" THEN "q1" ELSE "q2"]
ReqObjs == {RequestOf[c] : c \in Ctxs}
Objs == Ctxs \cup ReqObjs
\* the request attribute of an inbound request object: no object of the model
NoObj == "null"
\* RequestContext.cls.getStore() when no scope is active
NoStore == "undefined"
PlainResponse == "response"

NotInstanceMsg == "Current context is not an instance of AppRequestContext"

NOT_FOUND == "NOT_FOUND"
CONFLICT == "CONFLICT"
DefaultNotFoundMessage == "Not found"
Messages == {"Widget missing"}
Causes == {Err("boom")}
\* an exception of this taxonomy attached as cause when re-wrapping
Wrapped(e) == [t |-> "ExceptionBase", s |-> e.code]
\* metadata?: Record<string, unknown>
Metas == {[t |-> "object", s |-> "{\"widgetId\":7}"]}

VARIABLES
  heap,      \* the objects: contexts and their request attributes
  store,     \* the store of the executing async resource (what getStore() returns)
  running,   \* the request executing on the thread, or NoProc
  saved,     \* per request: the store captured by its pending continuation
  prior,     \* per request: the stores the enclosing run calls restore on exit
  exc,       \* the exception constructed most recently
  entered,   \* per request: the contexts it passed to run, innermost last
  last,      \* the call the running request made last, and its outcome
  fresh,     \* per object: setRequestId has never been applied to it
  guard      \* the value handed to the isEmpty guard, and what the call returned

vars == <<heap, store, running, saved, prior, exc, entered, last, fresh, guard>>

\* no serialized record
NoJson == [message |-> "", code |-> "", stack |-> Undef, correlationId |-> Undef,
           cause |-> Undef, metadata |-> Undef]
NoOp == [op |-> "none", ref |-> NoStore, val |-> Undef, thrown |-> FALSE,
         arg |-> Undef, argThrown |-> FALSE, prev |-> "call", json |-> NoJson]
NoExc == [live |-> FALSE, code |-> "", message |-> "", correlationId |-> Undef,
          cause |-> Undef, metadata |-> Undef]

\* what a retrieval follows: the tag of the call made before it
OpTag(l) ==
  IF l.op = "currentContext" THEN l.prev
  ELSE IF l.op = "run" THEN (IF l.thrown THEN "run:throw" ELSE "run:return")
  ELSE IF l.op \in {"resume", "enter"} THEN l.op
  ELSE "call"

Top(s) == s[Len(s)]
Pop(s) == SubSeq(s, 1, Len(s) - 1)

(* --------------------------- RequestContext ---------------------------- *)
\* new RequestContext(request, response) / new AppRequestContext(request, response);
\* cls "Object" is an inbound request that is no context at all.
\* requestId is declared without initialiser, so it reads undefined.
NewContext(cls, request, response) ==
  [cls |-> cls, request |-> request, response |-> response, requestId |-> Undef]

\* static get currentContext(): cls.getStore()
CurrentContext == store

\* AsyncLocalStorage.run: the callback executes with the given store ...
RunStore(c) == c
\* faulty variants: the scope is cleared, or left installed, instead of restored
ExitStore_none(p) == NoStore
ExitStore_keep(p) == store
\* ... and the store of the caller is restored when the callback completes
ExitStore(p) == Top(prior[p])
\* run returns / propagates the outcome of the callback
RunOutcome(threw, v) == [thrown |-> threw, val |-> v]
\* faulty variant: the continuation does not capture the store
CaptureStore_lost == NoStore
\* a continuation created inside a scope captures the store ...
CaptureStore == store
\* faulty variant: a continuation resumes with another request's store
ResumeStore_other(p) == saved[CHOOSE q \in Procs : q # p]
\* ... and executes with the captured store when it is resumed
ResumeStore(p) == saved[p]

(* ------------------------ RequestContextService ------------------------ *)
\* x instanceof AppRequestContext
IsAppRequestContext(x) == x \in Objs /\ heap[x].cls = "AppRequestContext"

\* faulty variant: tests and returns the ambient context itself
GetContext_ambient ==
  LET cur == CurrentContext
  IN IF IsAppRequestContext(cur) THEN cur ELSE NoObj

\* faulty variant: falls back to a default context when no scope is active
GetContext_default ==
  LET cur == CurrentContext
      ctx == IF cur = NoStore THEN RequestOf["c1"] ELSE heap[cur].request
  IN IF cur = NoStore \/ IsAppRequestContext(ctx) THEN ctx ELSE NoObj

\* getContext(): the object returned, or NoObj when it throws.
\*   const ctx = RequestContext.currentContext?.request;
\*   if (ctx instanceof AppRequestContext) return ctx;  throw new Error(...)
GetContext ==
  LET cur == CurrentContext
      ctx == IF cur = NoStore THEN NoObj ELSE heap[cur].request
  IN IF IsAppRequestContext(ctx) THEN ctx ELSE NoObj

\* faulty variants: the id is kept in one place shared by all requests, or
\* written to a context captured once, or written to the request attribute
AssignRequestId_request(h, ctx, id) == [h EXCEPT ![ctx].request = id]
\* faulty variant: the id is assigned only while none has been set
AssignRequestId_once(h, ctx, id) ==
  IF h[ctx].requestId = Undef THEN [h EXCEPT ![ctx].requestId = Str(id)] ELSE h
AssignRequestId_static(h, ctx, id) ==
  [o \in Objs |-> IF h[o].cls = "AppRequestContext" THEN [h[o] EXCEPT !.requestId = Str(id)] ELSE h[o]]
AssignRequestId_captured(h, ctx, id) == [h EXCEPT ![RequestOf["c1"]].requestId = Str(id)]
\* ctx.requestId = id
AssignRequestId(h, ctx, id) == [h EXCEPT ![ctx].requestId = Str(id)]

\* faulty variant: the id is read from a context captured once
ReadRequestId_shared(ctx) == heap[RequestOf["c1"]].requestId
\* getContext().requestId
ReadRequestId(ctx) == heap[ctx].requestId

(* --------------------------- ExceptionBase ----------------------------- *)
CodeOf(kind) == IF kind = "NotFoundException" THEN NOT_FOUND ELSE CONFLICT

\* constructor(message, cause?, metadata?): correlationId = getContext().requestId
NewException(kind, message, cause, metadata, ctx) ==
  [live |-> TRUE, code |-> CodeOf(kind), message |-> message,
   correlationId |-> ReadRequestId(ctx), cause |-> cause, metadata |-> metadata]

\* faulty variant: String(cause) instead of JSON.stringify(cause)
JSONStringify_String(v) ==
  IF v.t = "undefined" THEN Str("undefined")
  ELSE IF v.t = "Error" THEN Str("Error: " \o v.s)
  ELSE Str("Error: " \o v.s)

\* faulty variant: the cause is put into the record as it is
JSONStringify_live(v) == v

\* JSON.stringify(v) for the values a cause takes: undefined gives undefined
\* (no string); a plain Error has no enumerable own property and gives "{}";
\* an ExceptionBase is serialized through its own toJSON (the text is abridged
\* to the code here, the stack being representation-defined).
JSONStringify(v) ==
  IF v.t = "undefined" THEN Undef
  ELSE IF v.t = "Error" THEN Str("{}")
  ELSE Str("{\"code\":\"" \o v.s \o "\"}")

\* this.stack: a representation-defined string
StackOf(e) == Str("stack")

\* faulty variant: message and code change places
ToJSON_swapped(e) ==
  [message |-> e.code, code |-> e.message, stack |-> StackOf(e),
   correlationId |-> e.correlationId, cause |-> JSONStringify(e.cause),
   metadata |-> e.metadata]

\* toJSON(): the record returned
ToJSON(e) ==
  [message |-> e.message, code |-> e.code, stack |-> StackOf(e),
   correlationId |-> e.correlationId, cause |-> JSONStringify(e.cause),
   metadata |-> e.metadata]

\* faulty variant: toJSON flattens the cause in place
ThisAfterToJSON_flatten(e) == [e EXCEPT !.cause = JSONStringify(e.cause)]
\* toJSON(): the exception afterwards; it reads this and assigns no field
ThisAfterToJSON(e) == e

(* --------------------------- the isEmpty guard -------------------------- *)
\* The values of type unknown the guard is handed.
JsNull == [t |-> "null"]
JsUndefined == [t |-> "undefined"]
JsNumber(n) == [t |-> "number", n |-> n]
JsBoolean(b) == [t |-> "boolean", b |-> b]
\* a string, as the sequence of its characters
JsString(chars) == [t |-> "string", chars |-> chars]
JsDate == [t |-> "Date"]
JsFunction == [t |-> "function"]
JsArray(items) == [t |-> "array", items |-> items]
\* a plain object, as the function from its own enumerable keys to their values
JsObject(props) == [t |-> "object", props |-> props]
NoProps == [k \in {} |-> JsNull]

\* typeof value
TypeOf(value) ==
  IF value.t \in {"null", "Date", "array", "object"} THEN "object" ELSE value.t

\* the characters String.prototype.trim removes
WhiteSpace == {" ", "\t", "\n"}

RECURSIVE TrimStart(_)
TrimStart(chars) ==
  IF chars # <<>> /\ Head(chars) \in WhiteSpace THEN TrimStart(Tail(chars)) ELSE chars

RECURSIVE TrimEnd(_)
TrimEnd(chars) ==
  IF chars # <<>> /\ chars[Len(chars)] \in WhiteSpace
  THEN TrimEnd(SubSeq(chars, 1, Len(chars) - 1))
  ELSE chars

\* value.trim()
Trim(chars) == TrimEnd(TrimStart(chars))

\* Object.keys(value)
ObjectKeys(value) == DOMAIN value.props

RECURSIVE isEmpty(_)
\* faulty variant: an object whose every value is empty counts as empty
isEmpty_deep(value) ==
  IF value.t = "object"
  THEN \A k \in ObjectKeys(value) : isEmpty(value.props[k])
  ELSE IF value.t \in {"null", "undefined"} THEN TRUE
  ELSE IF value.t = "string" THEN Len(Trim(value.chars)) = 0
  ELSE IF value.t = "array"
       THEN Len(value.items) = 0 \/ \A i \in 1..Len(value.items) : isEmpty(value.items[i])
  ELSE FALSE

\* isEmpty(value: unknown)
isEmpty(value) ==
  IF value = JsNull \/ value = JsUndefined THEN TRUE
  ELSE IF TypeOf(value) \in {"number", "boolean"} THEN FALSE
  ELSE IF TypeOf(value) = "string" THEN Len(Trim(value.chars)) = 0
  ELSE IF TypeOf(value) = "object"
       THEN IF value.t = "Date" THEN FALSE
            ELSE IF value.t = "array"
                 THEN Len(value.items) = 0
                      \/ \A i \in 1..Len(value.items) : isEmpty(value.items[i])
                 ELSE Cardinality(ObjectKeys(value)) = 0
  ELSE FALSE

\* The values the guard is called with: the scalars and strings of the unit
\* tests, and the arrays and objects built from them, of at most MaxSize nodes.
Scalars == {JsNull, JsUndefined, JsNumber(0), JsBoolean(FALSE), JsDate, JsFunction}
Strings == {<<>>, <<" ">>, <<" ", "\t">>, <<"h">>, <<" ", "h", " ">>}

RECURSIVE ValuesOfSize(_)
RECURSIVE ItemsOfSize(_)
\* the element lists whose elements have n nodes in all
ItemsOfSize(n) ==
  IF n = 0 THEN {<<>>}
  ELSE UNION {{<<v>> \o rest : v \in ValuesOfSize(k), rest \in ItemsOfSize(n - k)} :
                k \in 1..n}

\* the values of exactly n nodes
ValuesOfSize(n) ==
  IF n = 1
  THEN Scalars \cup {JsString(c) : c \in Strings} \cup {JsArray(<<>>), JsObject(NoProps)}
  ELSE {JsArray(items) : items \in ItemsOfSize(n - 1)}
       \cup {JsObject([k \in {"key"} |-> v]) : v \in ValuesOfSize(n - 1)}

Values == UNION {ValuesOfSize(n) : n \in 1..MaxSize}

NoGuard == [value |-> JsUndefined, called |-> FALSE, result |-> FALSE]

(* ------------------------------- Init ---------------------------------- *)
\* The store is created empty; the boundary layer has constructed the contexts.
\* Between them the contexts cover both classes and both kinds of request
\* attribute (an inbound request object, or an AppRequestContext).
Init ==
  /\ \E k1 \in {<<"RequestContext", "AppRequestContext">>, <<"AppRequestContext", "Object">>},
        k2 \in {<<"AppRequestContext", "AppRequestContext">>, <<"RequestContext", "Object">>} :
       LET k == [c \in Ctxs |-> IF c = "c1" THEN k1 ELSE k2]
       IN heap = [o \in Objs |->
                    IF o \in Ctxs
                    THEN NewContext(k[o][1], RequestOf[o], PlainResponse)
                    ELSE NewContext(k[CHOOSE c \in Ctxs : RequestOf[c] = o][2], NoObj, PlainResponse)]
  /\ store = NoStore
  /\ running = NoProc
  /\ saved = [p \in Procs |-> NoStore]
  /\ prior = [p \in Procs |-> <<>>]
  /\ exc = NoExc
  /\ entered = [p \in Procs |-> <<>>]
  /\ last = NoOp
  /\ fresh = [o \in Objs |-> TRUE]
  /\ guard = NoGuard

(* ------------------------------ actions -------------------------------- *)
\* The event loop resumes (or starts) a request: its continuation executes
\* with the store it captured.
Resume(p) ==
  /\ running = NoProc
  /\ running' = p
  /\ store' = ResumeStore(p)
  /\ saved' = [saved EXCEPT ![p] = NoStore]
  /\ last' = [NoOp EXCEPT !.op = "resume"]
  /\ UNCHANGED <<heap, prior, exc, entered, fresh, guard>>

\* The running request awaits: its continuation captures the store and the
\* thread returns to the event loop.
Suspend(p) ==
  /\ running = p
  /\ saved' = [saved EXCEPT ![p] = CaptureStore]
  /\ running' = NoProc
  /\ store' = NoStore
  /\ last' = NoOp
  /\ UNCHANGED <<heap, prior, exc, entered, fresh, guard>>

\* RequestContext.cls.run(c, operation): entry.
Run(p, c) ==
  /\ running = p
  /\ Len(entered[p]) < MaxDepth
  /\ prior' = [prior EXCEPT ![p] = Append(@, store)]
  /\ store' = RunStore(c)
  /\ entered' = [entered EXCEPT ![p] = Append(@, c)]
  /\ last' = [NoOp EXCEPT !.op = "enter"]
  /\ UNCHANGED <<heap, running, saved, exc, fresh, guard>>

\* The operation given to run completes, returning v or throwing v.
Exit(p, threw, v) ==
  /\ running = p
  /\ entered[p] # <<>>
  /\ store' = ExitStore(p)
  /\ prior' = [prior EXCEPT ![p] = Pop(@)]
  /\ entered' = [entered EXCEPT ![p] = Pop(@)]
  /\ LET o == RunOutcome(threw, v)
     IN last' = [NoOp EXCEPT !.op = "run", !.val = o.val, !.thrown = o.thrown,
                             !.arg = v, !.argThrown = threw]
  /\ UNCHANGED <<heap, running, saved, exc, fresh, guard>>

\* RequestContext.currentContext
GetCurrentContext(p) ==
  /\ running = p
  /\ last' = [NoOp EXCEPT !.op = "currentContext", !.ref = CurrentContext,
                          !.prev = OpTag(last)]
  /\ UNCHANGED <<heap, store, running, saved, prior, exc, entered, fresh, guard>>

\* RequestContextService.getContext()
CallGetContext(p) ==
  /\ running = p
  /\ LET ctx == GetContext
     IN last' = IF ctx = NoObj
                THEN [NoOp EXCEPT !.op = "getContext", !.thrown = TRUE, !.val = Err(NotInstanceMsg)]
                ELSE [NoOp EXCEPT !.op = "getContext", !.ref = ctx]
  /\ UNCHANGED <<heap, store, running, saved, prior, exc, entered, fresh, guard>>

\* faulty variant: with no context the call returns without an error
SetRequestId_silent(p, id) ==
  /\ running = p
  /\ LET ctx == GetContext
     IN IF ctx = NoObj
        THEN /\ last' = [NoOp EXCEPT !.op = "setRequestId", !.arg = Str(id)]
             /\ UNCHANGED <<heap, fresh>>
        ELSE /\ heap' = AssignRequestId(heap, ctx, id)
             /\ fresh' = [fresh EXCEPT ![ctx] = FALSE]
             /\ last' = [NoOp EXCEPT !.op = "setRequestId", !.ref = ctx, !.arg = Str(id)]
  /\ UNCHANGED <<store, running, saved, prior, exc, entered, guard>>

\* RequestContextService.setRequestId(id)
SetRequestId(p, id) ==
  /\ running = p
  /\ LET ctx == GetContext
     IN IF ctx = NoObj
        THEN /\ last' = [NoOp EXCEPT !.op = "setRequestId", !.thrown = TRUE,
                                     !.val = Err(NotInstanceMsg), !.arg = Str(id)]
             /\ UNCHANGED <<heap, fresh>>
        ELSE /\ heap' = AssignRequestId(heap, ctx, id)
             /\ fresh' = [fresh EXCEPT ![ctx] = FALSE]
             /\ last' = [NoOp EXCEPT !.op = "setRequestId", !.ref = ctx, !.arg = Str(id)]
  /\ UNCHANGED <<store, running, saved, prior, exc, entered, guard>>

\* RequestContextService.getRequestId()
GetRequestId(p) ==
  /\ running = p
  /\ LET ctx == GetContext
     IN last' = IF ctx = NoObj
                THEN [NoOp EXCEPT !.op = "getRequestId", !.thrown = TRUE, !.val = Err(NotInstanceMsg)]
                ELSE [NoOp EXCEPT !.op = "getRequestId", !.ref = ctx, !.val = ReadRequestId(ctx)]
  /\ UNCHANGED <<heap, store, running, saved, prior, exc, entered, fresh, guard>>

\* new <Kind>Exception(...): NotFoundException(message = 'Not found') passes
\* only the message on; the other kinds take (message, cause?, metadata?).
Throw(p, kind, message, cause, metadata) ==
  /\ running = p
  /\ LET ctx == GetContext
     IN IF ctx = NoObj
        THEN /\ last' = [NoOp EXCEPT !.op = "new", !.thrown = TRUE, !.val = Err(NotInstanceMsg)]
             /\ UNCHANGED exc
        ELSE /\ exc' = NewException(kind, message, cause, metadata, ctx)
             /\ last' = [NoOp EXCEPT !.op = "new", !.ref = ctx]
  /\ UNCHANGED <<heap, store, running, saved, prior, entered, fresh, guard>>

\* exception.toJSON() on the exception constructed last
Serialize(p) ==
  /\ running = p
  /\ exc.live
  /\ last' = [NoOp EXCEPT !.op = "toJSON", !.json = ToJSON(exc)]
  /\ exc' = ThisAfterToJSON(exc)
  /\ UNCHANGED <<heap, store, running, saved, prior, entered, fresh, guard>>

Next ==
  \/ \E p \in Procs : Resume(p)
  \/ \E p \in Procs : Suspend(p)
  \/ \E p \in Procs, c \in Ctxs : Run(p, c)
  \/ \E p \in Procs : Exit(p, FALSE, Str("done"))
  \/ \E p \in Procs : Exit(p, TRUE, Err("boom"))
  \/ \E p \in Procs : GetCurrentContext(p)
  \/ \E p \in Procs : CallGetContext(p)
  \/ \E p \in Procs, id \in Ids : SetRequestId(p, id)
  \/ \E p \in Procs : GetRequestId(p)
  \/ \E p \in Procs, m \in Messages \cup {DefaultNotFoundMessage} :
        Throw(p, "NotFoundException", m, Undef, Undef)
  \/ \E p \in Procs, m \in Messages, c \in Causes, d \in Metas :
        Throw(p, "ConflictException", m, c, d)
  \/ \E p \in Procs, m \in Messages :
        /\ exc.live /\ exc.cause = Undef
        /\ Throw(p, "ConflictException", m, Wrapped(exc), Undef)
  \/ \E p \in Procs : Serialize(p)

Spec == Init /\ [][Next]_vars

(* ----------------------- the guard, on its own -------------------------- *)
\* Guard.isEmpty is a pure function: a caller picks a value and calls it.
InitGuard ==
  /\ guard \in {[NoGuard EXCEPT !.value = v] : v \in Values}
  /\ heap = [o \in Objs |-> NewContext("AppRequestContext",
                                       IF o \in Ctxs THEN RequestOf[o] ELSE NoObj,
                                       PlainResponse)]
  /\ store = NoStore
  /\ running = NoProc
  /\ saved = [p \in Procs |-> NoStore]
  /\ prior = [p \in Procs |-> <<>>]
  /\ exc = NoExc
  /\ entered = [p \in Procs |-> <<>>]
  /\ last = NoOp
  /\ fresh = [o \in Objs |-> TRUE]

CallIsEmpty ==
  /\ ~guard.called
  /\ guard' = [guard EXCEPT !.called = TRUE, !.result = isEmpty(guard.value)]
  /\ UNCHANGED <<heap, store, running, saved, prior, exc, entered, last, fresh>>

NextGuard == CallIsEmpty

SpecGuard == InitGuard /\ [][NextGuard]_vars

(* ------------------------------ claims --------------------------------- *)
InExtent(p) == entered[p] # <<>>
\* the context of the innermost run the request is in
Ctx(p) == Top(entered[p])
\* the AppRequestContext the accessor resolves for a context: its request attribute
AppCtx(c) == heap[c].request
Retrieved(p) == running = p /\ last.op = "currentContext"
Populated(v) == v.t = "string" /\ v.s # ""

\* C1 (isolation): a currentContext retrieval made by a request inside its
\* extent returns the context that request entered, and never the context another
\* request is in, whatever the interleaving.
C1_Isolation ==
  \A p \in Procs, q \in Procs :
    (p # q /\ Retrieved(p) /\ InExtent(p) /\ InExtent(q) /\ Ctx(q) # Ctx(p))
      => (last.ref = Ctx(p) /\ last.ref # Ctx(q))

C1_Witness ==
  /\ Retrieved("R1") /\ last.prev = "resume"
  /\ entered["R1"] = <<"c1">> /\ entered["R2"] = <<"c2">>
  /\ saved["R2"] = "c2" /\ last.ref = "c1"

\* C3 (identity across suspension): inside an extent the store of the running
\* request, the store held by a suspended request's continuation, and the
\* result of every retrieval (after entry, after a resumption, after a nested
\* run returned) are the very object that was entered.
C3_IdentityPreserved ==
  \A p \in Procs :
    InExtent(p) =>
      /\ running = p => store = Ctx(p)
      /\ running # p => saved[p] = Ctx(p)
      /\ Retrieved(p) => last.ref = Ctx(p)

C3_Witness ==
  \E p \in Procs :
    /\ Retrieved(p) /\ last.prev = "resume"
    /\ Len(entered[p]) = 2 /\ entered[p][1] # entered[p][2]
    /\ last.ref = entered[p][2]
    /\ \E q \in Procs : q # p /\ InExtent(q)

\* C7 (nesting): the stores to restore form a stack that mirrors the entered
\* contexts; a retrieval in the inner extent returns the inner context and a
\* retrieval right after the inner run completed returns the outer context.
C7_StackNesting ==
  \A p \in Procs :
    /\ Len(prior[p]) = Len(entered[p])
    /\ \A i \in 1..Len(entered[p]) :
         prior[p][i] = IF i = 1 THEN NoStore ELSE entered[p][i - 1]
    /\ (Retrieved(p) /\ Len(entered[p]) = 2) => last.ref = entered[p][2]
    /\ (Retrieved(p) /\ Len(entered[p]) = 1 /\ last.prev \in {"run:return", "run:throw"})
         => last.ref = entered[p][1]

C7_Witness ==
  \E p \in Procs :
    /\ Retrieved(p) /\ last.prev = "run:return"
    /\ entered[p] = <<"c1">> /\ last.ref = "c1"

\* C8 (exit): run gives its caller what the operation returned or threw, and
\* a request outside every run extent (before its first run, after a run that
\* returned, after a run that threw) retrieves no context.
C8_ExitRestores ==
  /\ last.op = "run" => (last.val = last.arg /\ last.thrown = last.argThrown)
  /\ \A p \in Procs :
       (running = p /\ ~InExtent(p)) =>
         /\ store = NoStore
         /\ last.op = "currentContext" => last.ref = NoStore

C8_Witness ==
  \E p \in Procs :
    Retrieved(p) /\ ~InExtent(p) /\ last.prev = "run:throw" /\ last.ref = NoStore

C4_Claim ==
  (running # NoProc /\ last.op = "getContext") =>
    IF store # NoStore /\ heap[store].cls = "AppRequestContext"
    THEN ~last.thrown /\ last.ref = store
    ELSE last.thrown

\* C5 (as claimed): every exception that was constructed has a populated
\* (defined, non-empty) correlationId, also when it was constructed before
\* setRequestId; without an active context none is constructed.
C5_Claim ==
  /\ exc.live => Populated(exc.correlationId)
  /\ (running # NoProc /\ last.op = "new" /\ store = NoStore) => last.thrown

\* C6 (no context): constructing an exception of any kind while no context is
\* active yields no exception object; it throws a plain Error.
C6_NoContextThrows ==
  [][(last'.op = "new" /\ store = NoStore)
       => (exc' = exc /\ last'.thrown /\ last'.val = Err(NotInstanceMsg))]_vars

C6_Witness ==
  /\ running # NoProc /\ last.op = "new" /\ last.thrown
  /\ store = NoStore /\ last.val.t = "Error" /\ ~exc.live

\* C9 (no carry-over): inside a request whose AppRequestContext has never been
\* given a requestId, getRequestId and the correlationId of a new exception are
\* the uninitialised value, never a requestId set on another object.
C9_NoCarryOver ==
  \A p \in Procs :
    (running = p /\ InExtent(p) /\ ~last.thrown /\ fresh[AppCtx(Ctx(p))]) =>
      LET seen == IF last.op = "new" THEN exc.correlationId ELSE last.val
      IN last.op \in {"getRequestId", "new"} =>
           /\ seen = Undef
           /\ \A o \in Objs : ~fresh[o] => seen # heap[o].requestId

C9_Witness ==
  \E p \in Procs, o \in Objs :
    /\ running = p /\ InExtent(p) /\ last.op = "getRequestId" /\ ~last.thrown
    /\ fresh[AppCtx(Ctx(p))]
    /\ ~fresh[o] /\ Populated(heap[o].requestId)
    /\ \A q \in Procs : q # p => ~InExtent(q)

C11_NeverMutated ==
  [][exc.live => (exc' = exc \/ (last'.op = "new" /\ ~last'.thrown))]_vars

C11_Witness ==
  /\ running # NoProc /\ last.op = "toJSON"
  /\ \A p \in Procs : ~InExtent(p)
  /\ heap["q2"].cls = "Object"
  /\ exc.live /\ exc.correlationId = Str("abc")
  /\ heap["q1"].requestId = Str("r-1")
  /\ last.json.correlationId = Str("abc")

\* C12 (round trip): the record toJSON returns carries the exception's own
\* message, code, correlationId and metadata.
C12_RoundTrip ==
  last.op = "toJSON" =>
    /\ last.json.message = exc.message
    /\ last.json.code = exc.code
    /\ last.json.correlationId = exc.correlationId
    /\ last.json.metadata = exc.metadata

C12_Witness ==
  /\ last.op = "toJSON" /\ exc.live
  /\ Populated(exc.correlationId) /\ exc.metadata # Undef
  /\ last.json.metadata = exc.metadata /\ last.json.code = CONFLICT

\* the record of toJSON without its stack
NoStack(j) == [j EXCEPT !.stack = Undef]
WidgetMissing(cause) ==
  [message |-> "Widget missing", code |-> NOT_FOUND, stack |-> Undef,
   correlationId |-> Str("r-1"), cause |-> cause, metadata |-> Undef]
SerializedWidgetMissing ==
  /\ last.op = "toJSON"
  /\ exc = [live |-> TRUE, code |-> NOT_FOUND, message |-> "Widget missing",
            correlationId |-> Str("r-1"), cause |-> Undef, metadata |-> Undef]

\* C13 (as claimed): new NotFoundException("Widget missing") under requestId
\* "r-1" serializes with the cause field being the string "undefined".
C13_Claim ==
  SerializedWidgetMissing => NoStack(last.json) = WidgetMissing(Str("undefined"))

\* C13 (amended): that exception serializes to message "Widget missing", code
\* NOT_FOUND, correlationId "r-1", metadata undefined and cause undefined: an
\* absent value, not a string; so does the cause of every exception
\* constructed without one.
C13_CauseUndefined ==
  /\ SerializedWidgetMissing => NoStack(last.json) = WidgetMissing(Undef)
  /\ (last.op = "toJSON" /\ exc.cause = Undef) => last.json.cause = Undef

C13_Witness ==
  SerializedWidgetMissing /\ last.json.cause = Undef /\ last.json.code = NOT_FOUND

\* C14 (cause flattened): the record of an exception constructed with a cause,
\* a plain Error or an exception of the taxonomy, has a string as its cause.
C14_CauseIsString ==
  (last.op = "toJSON" /\ exc.cause # Undef) => last.json.cause.t = "string"

C14_Witness ==
  /\ last.op = "toJSON" /\ exc.cause.t = "ExceptionBase"
  /\ last.json.cause.t = "string"

\* C15 (references fixed): every context holds the request and the response
\* it was constructed with, whatever the requests have done.
C15_ReferencesFixed ==
  /\ \A c \in Ctxs : heap[c].request = RequestOf[c] /\ heap[c].response = PlainResponse
  /\ \A q \in ReqObjs : heap[q].request = NoObj /\ heap[q].response = PlainResponse

C15_Witness ==
  /\ last.op = "toJSON" /\ exc.live
  /\ Populated(heap["q1"].requestId) /\ Populated(heap["q2"].requestId)
  /\ heap["q1"].requestId # heap["q2"].requestId
  /\ \E p \in Procs : InExtent(p) /\ running # p
  /\ heap["c1"].request = "q1" /\ heap["c2"].request = "q2"

\* C17 (what getContext resolves): getContext returns exactly when the request
\* is inside a run and the request attribute of its ambient context is an
\* AppRequestContext; the object returned is that attribute, not the object
\* handed to run; setRequestId and getRequestId act on that attribute too, so
\* every object they read or write is an AppRequestContext.
C17_ResolvesRequestAttribute ==
  \A p \in Procs :
    /\ (running = p /\ last.op = "getContext") =>
         /\ ~last.thrown <=> (InExtent(p) /\ IsAppRequestContext(AppCtx(Ctx(p))))
         /\ ~last.thrown => (last.ref = AppCtx(Ctx(p)) /\ last.ref # Ctx(p))
    /\ (running = p /\ last.op \in {"setRequestId", "getRequestId"} /\ ~last.thrown) =>
         /\ last.ref = AppCtx(Ctx(p)) /\ last.ref # Ctx(p)
         /\ IsAppRequestContext(last.ref)

C17_Witness ==
  \E p \in Procs :
    /\ running = p /\ last.op = "getContext" /\ ~last.thrown
    /\ InExtent(p) /\ heap[Ctx(p)].cls = "RequestContext"
    /\ last.ref = heap[Ctx(p)].request

\* C18 (no context): setRequestId, getRequestId and getContext called by a
\* request that is in no run all throw the same error, and the call leaves
\* every context's fields, requestId included, as they were.
C18_NoContextSameError ==
  [][(/\ last'.op \in {"setRequestId", "getRequestId", "getContext"}
      /\ running # NoProc /\ ~InExtent(running))
       => (last'.thrown /\ last'.val = Err(NotInstanceMsg) /\ heap' = heap)]_vars

C18_Witness ==
  /\ running # NoProc /\ ~InExtent(running)
  /\ last.op = "setRequestId" /\ last.thrown /\ last.val = Err(NotInstanceMsg)
  /\ \E o \in Objs : Populated(heap[o].requestId) /\ heap[o].requestId # last.arg

\* C19 (overwrite): setRequestId on a context that already has a requestId
\* replaces it with the new value and leaves the exceptions already built
\* alone; getRequestId returns the value the context holds now, and a new
\* exception takes that value as its correlationId.
C19_SecondSetOverwrites ==
  /\ [][(last'.op = "setRequestId" /\ ~last'.thrown
           /\ Populated(heap[last'.ref].requestId))
          => (heap'[last'.ref].requestId = last'.arg /\ exc' = exc)]_vars
  /\ []((last.op = "getRequestId" /\ ~last.thrown)
          => last.val = heap[last.ref].requestId)
  /\ []((last.op = "new" /\ ~last.thrown)
          => exc.correlationId = heap[AppCtx(Ctx(running))].requestId)

C19_Witness ==
  /\ heap["q2"].cls = "Object"
  /\ exc.live /\ exc.correlationId = Str("abc")
  /\ last.op = "getRequestId" /\ ~last.thrown /\ last.ref = "q1"
  /\ last.val = Str("r-1")

\* what the contract says of a value: empty or not
RECURSIVE SaidEmpty(_)
SaidEmpty(v) ==
  \/ v.t \in {"null", "undefined"}
  \/ v.t = "string" /\ \A i \in 1..Len(v.chars) : v.chars[i] \in WhiteSpace
  \/ v.t = "array" /\ (v.items = <<>> \/ \A i \in 1..Len(v.items) : SaidEmpty(v.items[i]))
  \/ v.t = "object" /\ DOMAIN v.props = {}

\* C16 (isEmpty): isEmpty returns true exactly for null, undefined, a string
\* of whitespace only, an array that is empty or holds only empty elements
\* (nested arrays included) and an object without keys; it returns false for
\* every number, boolean, Date and object with a key, empty-valued or not.
C16_IsEmptyContract ==
  guard.called =>
    /\ guard.result <=> SaidEmpty(guard.value)
    /\ guard.value.t \in {"number", "boolean", "Date"} => ~guard.result
    /\ (guard.value.t = "object" /\ DOMAIN guard.value.props # {}) => ~guard.result

C16_Witness ==
  /\ guard.called /\ guard.result
  /\ guard.value = JsArray(<<JsArray(<<JsString(<<" ", "\t">>)>>)>>)

====
